---- MODULE Spec2Model ----
(***************************************************************************)
(* Model of the position-to-place resolution pipeline of                   *)
(* OpenGuessr_Helper.js (version 1.7, lines 12-717).                        *)
(*                                                                         *)
(* Time is discrete: one Tick is 2000 ms, and every event happens on a     *)
(* tick.  A timer is the number of ticks left before its callback runs, or *)
(* NoTimer when none is pending; time does not advance past a timer that   *)
(* is due.  Events with no tick between them are less than 2000 ms apart.  *)
(*                                                                         *)
(* Coordinates are integers in units of 1e-7 degree, one digit finer than  *)
(* the 6 decimals of the cache key, and lie within a few hundred metres of *)
(* (0,0), where the Haversine distance of the code is the planar distance  *)
(* to within 1e-9.                                                          *)
(*                                                                         *)
(* The map widget and the info panel are taken to exist (minimapInstance   *)
(* set, #minimapInfo and #minimapInfoText in the document).                 *)
(***************************************************************************)
EXTENDS Integers, FiniteSets, Sequences, TLC

VARIABLES
    lastPosition,               \* last position given to updateMinimap
    lastPos,                    \* PositionModule's last parsed position
    lastValidPlaceName,
    positionStatusTimeout,      \* ticks left of the 8000 ms status timer
    nominatimDebounceTimeout,   \* [remaining, position] of the debounce timer
    nominatimErrorCount,
    nominatimErrorResetTimeout, \* ticks left of the 30000 ms reset timer
    locationCache,              \* cache key -> entry or Null
    infoPanelClasses,           \* status classes of #minimapInfo
    infoText,                   \* content of #minimapInfoText
    inFlight,                   \* position -> number of fetches awaiting a response
    positionUpdateInterval,     \* ticks left before the next polling tick
    sinceCall,                  \* history: ticks since the last updateInfoPanel call, up to 1
    burstCalls,                 \* history: updateInfoPanel calls of the current burst, up to 2
    burstRequests,              \* history: fetches sent since the burst began, up to 2
    failRun,                    \* history: failed fetches since the last success
    failRunT,                   \* history: same, also restarted by the reset timer
    errorRun,                   \* history: a failure set the error status since the last success
    sinceFailure,               \* history: ticks since the second failure of a run
    sinceUpdate,                \* history: ticks since the last updateMinimap call, up to 5
    connectedFor,               \* history: ticks the status has been connected with no
                                \* resolution completing with a place name, up to 5
    outcome,                    \* history: how the last resolution ended
    polled,                     \* history: what the last polling tick got
    pending,                    \* history: timers of each kind set and neither run nor cleared
    shown,                      \* history: whether the text is that of the latest call
    arg,                        \* the argument of a function applied on its own
    ret,                        \* the value it returned
    recording                   \* which of the history variables are kept

vars == <<lastPosition, lastPos, lastValidPlaceName, positionStatusTimeout,
          nominatimDebounceTimeout, nominatimErrorCount,
          nominatimErrorResetTimeout, locationCache, infoPanelClasses,
          infoText, inFlight, positionUpdateInterval,
          sinceCall, burstCalls, burstRequests, failRun, failRunT, errorRun,
          sinceFailure, sinceUpdate, connectedFor, outcome, polled, shown,
          pending, arg, ret, recording>>

\* What a polling tick that does not call updateMinimap leaves alone, apart
\* from the program's own variables.
histVars == <<sinceCall, burstCalls, burstRequests, failRun, failRunT,
              errorRun, sinceFailure, sinceUpdate, connectedFor, outcome,
              shown, pending, arg, ret, recording>>

callVars == <<sinceCall, burstCalls, burstRequests>>

failureVars == <<failRun, failRunT, errorRun>>

statusVars == <<sinceUpdate, connectedFor>>

applyVars == <<arg, ret>>

----------------------------------------------------------------------------
(* Bounds *)

MaxInFlight == 2      \* fetches awaiting a response at the same time
MaxErrorCount == 4    \* cap of nominatimErrorCount
MaxIframes == 2       \* iframes of a page given to getCurrentPosition

----------------------------------------------------------------------------
(* Configuration constants; delays in ticks of 2000 ms *)

DISTANCE_THRESHOLD_METERS == 100
NOMINATIM_ERROR_THRESHOLD == 3
NOMINATIM_ERROR_RESET_TIMEOUT == 15
DEBOUNCE_DELAY == 1
STATUS_TIMEOUT == 4
POLL_INTERVAL == 1

NoTimer == -1
Null == [null |-> TRUE]

Pos(la, ln) == [lat |-> la, lng |-> ln]

\* The positions the panorama reports: the origin and a point 15.7 m from it,
\* under another cache key.
Coords == {Pos(0, 0), Pos(1000, 1000)}

----------------------------------------------------------------------------
(* Pure functions *)

Abs(x) == IF x < 0 THEN -x ELSE x

RECURSIVE IsqrtIter(_, _, _)
IsqrtIter(n, lo, hi) ==
    IF lo >= hi THEN lo
    ELSE LET mid == (lo + hi + 1) \div 2
         IN IF mid * mid <= n THEN IsqrtIter(n, mid, hi)
                              ELSE IsqrtIter(n, lo, mid - 1)

\* floor of the square root, for 0 <= n < 2^30
Isqrt(n) == IsqrtIter(n, 0, 32767)

\* Distance in whole metres (rounded down).  One unit of 1e-7 degree of arc
\* on the sphere of radius 6371e3 m is 0.0111195 m; near (0,0) the Haversine
\* formula gives R * sqrt(dphi^2 + dlambda^2).
calculateDistance(lat1, lng1, lat2, lng2) ==
    LET dphi == lat2 - lat1
        dlam == lng2 - lng1
        a == dphi * dphi + dlam * dlam
    IN (Isqrt(a) * 111195) \div 10000000

\* Line 72 with <= for <.
isCachedLocationValidInclusive(newLat, newLng, cachedLat, cachedLng) ==
    calculateDistance(newLat, newLng, cachedLat, cachedLng)
        <= DISTANCE_THRESHOLD_METERS

\* Line 72 for a new point that is not south of the cached one.
isCachedLocationValidNorthOnly(newLat, newLng, cachedLat, cachedLng) ==
    /\ newLat >= cachedLat
    /\ calculateDistance(newLat, newLng, cachedLat, cachedLng)
           < DISTANCE_THRESHOLD_METERS

isCachedLocationValid(newLat, newLng, cachedLat, cachedLng) ==
    calculateDistance(newLat, newLng, cachedLat, cachedLng)
        < DISTANCE_THRESHOLD_METERS

\* Number.prototype.toFixed(6): a sign for x < 0 and the magnitude rounded to
\* 6 decimals (ties upwards), so that -0.0000004 gives "-0.000000".
toFixed6(x) == <<x < 0, (Abs(x) + 5) \div 10>>

cachedKeyOf(position) == <<toFixed6(position.lat), toFixed6(position.lng)>>

Keys == {cachedKeyOf(p) : p \in Coords}

----------------------------------------------------------------------------
(* The position source, lines 40-51 and 307-334 *)

\* The values of Number(s) and of a missing array element.
Num(n) == [num |-> n]
NaN == [nan |-> TRUE]
Infinity == [inf |-> TRUE]
Undefined == [undefined |-> TRUE]

\* The texts between the commas of a location parameter: a number, nothing,
\* a word and the word that Number reads as an infinite value.
Components == {"0.0001", "", "abc", "Infinity"}

\* Number(s): the empty string is 0; the number is in units of 1e-7 degree.
Number(s) ==
    IF s = "0.0001" THEN Num(1000)
    ELSE IF s = "" THEN Num(0)
    ELSE IF s = "Infinity" THEN Infinity
    ELSE NaN

isNaN(v) == v \in {NaN, Undefined}

\* The value of searchParams.get('location') split at the commas; <<>> when
\* the URL has no such parameter, <<"">> when the parameter is empty.
Locations ==
    {<<>>} \cup {<<c>> : c \in Components}
           \cup {<<c, d>> : c \in Components, d \in Components}

\* The src of an iframe: Null when it has none, else whether it includes
\* 'google.com/maps/embed/v1/streetview' and its location parameter.
Srcs ==
    {Null}
    \cup {[embed |-> TRUE, location |-> l] : l \in Locations}
    \cup {[embed |-> FALSE, location |-> l] : l \in {<<>>, <<"0.0001", "0.0001">>}}

Ids == {"PanoramaIframe", "frame"}

Iframes == [id : Ids, src : Srcs]

\* The iframes of the page, in document order.
Pages == UNION {[1..n -> Iframes] : n \in 0..MaxIframes}

\* Version 1.6, line 904: the iframe with the id PanoramaIframe.
findStreetViewIframeById(iframes) ==
    LET matching == {i \in 1..Len(iframes) : iframes[i].id = "PanoramaIframe"}
    IN IF matching = {} THEN Null
       ELSE iframes[CHOOSE i \in matching : \A j \in matching : i <= j]

\* Lines 41-51: the first iframe whose src includes the embed pattern.
findStreetViewIframe(iframes) ==
    LET matching == {i \in 1..Len(iframes) :
                        IF iframes[i].src = Null THEN FALSE
                        ELSE iframes[i].src.embed}
    IN IF matching = {} THEN Null
       ELSE iframes[CHOOSE i \in matching : \A j \in matching : i <= j]

\* _getCurrentPosition, lines 311-327.
currentPosition(iframes) ==
    LET iframe == findStreetViewIframe(iframes)
    IN IF iframe = Null THEN Null
       ELSE IF iframe.src = Null THEN Null
       ELSE LET loc == iframe.src.location
            IN IF loc = <<>> THEN Null
               ELSE IF loc = <<"">> THEN Null
               ELSE LET lat == Number(loc[1])
                        lng == IF Len(loc) >= 2 THEN Number(loc[2])
                               ELSE Undefined
                    IN IF isNaN(lat) THEN Null
                       ELSE IF isNaN(lng) THEN Null
                       ELSE [lat |-> lat, lng |-> lng]

----------------------------------------------------------------------------
(* Responses of the reverse-geocoding service *)

\* A missing JSON field and an empty string are both falsy in the code and
\* are both written "".
Addr(country, city, town, village) ==
    [country |-> country, city |-> city, town |-> town, village |-> village]

Json(address, display_name) ==
    [kind |-> "json", data |-> [address |-> address, display_name |-> display_name]]

\* fetch rejects; res.ok is false; res.json() rejects
FailureResponses == {[kind |-> "transport"], [kind |-> "http"], [kind |-> "badjson"]}

\* The bodies of a response with res.ok: an address with a country and a
\* city, an address object with none of the four fields, no address and a
\* display name (the text that the first address composes to), no address and
\* no display name, and the JSON value null.
JsonResponses ==
    { Json(Addr("France", "Paris", "", ""), "Paris, Ile-de-France, France"),
      Json(Addr("", "", "", ""), ""),
      Json(Null, "France, Paris"),
      Json(Null, ""),
      [kind |-> "json", data |-> Null] }

Responses == FailureResponses \cup JsonResponses

\* placeName.includes('Location Name Unavailable'): the text has no comma, so
\* it lies inside the country or inside the locality; the field values of the
\* model contain it only when they are equal to it.
IncludesUnavailable(country, city) ==
    "Location Name Unavailable" \in {country, city}

\* Lines 521-529: the name composed from a structured address.
composePlaceNameTownFirst(address) ==
    LET country == address.country
        city == IF address.town # "" THEN address.town
                ELSE IF address.city # "" THEN address.city
                ELSE address.village
    IN IF city # "" THEN country \o ", " \o city ELSE country

\* Lines 521-529.
composePlaceName(address) ==
    LET country == address.country
        city == IF address.city # "" THEN address.city
                ELSE IF address.town # "" THEN address.town
                ELSE address.village
    IN IF city # "" THEN country \o ", " \o city ELSE country

\* Lines 514-518 and 542: the try block throws when fetch rejects, res.ok is
\* false or res.json() rejects, and at data.display_name when the body is the
\* JSON value null.
throws(response) ==
    IF response.kind # "json" THEN TRUE ELSE response.data = Null

\* Lines 514-552: what the try block makes of a response: thrown (TRUE when
\* control passes to the catch block), the place name, and whether the name is
\* written to lastValidPlaceName and locationCache.
parseResponse(response) ==
    IF throws(response)
    THEN [thrown |-> TRUE, placeName |-> "Unknown", store |-> FALSE]
    ELSE IF response.data.address # Null
    THEN LET address == response.data.address
             city == IF address.city # "" THEN address.city
                     ELSE IF address.town # "" THEN address.town
                     ELSE address.village
             placeName == composePlaceName(address)
         IN [thrown |-> FALSE, placeName |-> placeName,
             store |-> /\ placeName # "Unknown"
                       /\ placeName # "No details found"
                       /\ ~IncludesUnavailable(address.country, city)]
    ELSE LET placeName == IF response.data.display_name # ""
                          THEN response.data.display_name
                          ELSE "No details found"
         IN [thrown |-> FALSE, placeName |-> placeName,
             store |-> placeName # "No details found"]

\* Line 507 never finding an entry.
cacheHitNever(cache, position) == FALSE

\* Line 507: the entry under the key of the position, if it is within the
\* distance threshold of the position.
cacheHit(cache, position) ==
    LET entry == cache[cachedKeyOf(position)]
    IN /\ entry # Null
       /\ isCachedLocationValid(position.lat, position.lng, entry.lat, entry.lng)

\* Line 575 without the last valid name.
fallbackNameAlwaysUnavailable(lastValid) == "Location Name Unavailable"

\* Line 575: the text shown after a failure below the threshold.
fallbackName(lastValid) ==
    IF lastValid # "Unknown" THEN lastValid \o " (Last Known)"
    ELSE "Location Name Unavailable"

InFlightCount == LET RECURSIVE Sum(_)
                     Sum(S) == IF S = {} THEN 0
                               ELSE LET p == CHOOSE q \in S : TRUE
                                    IN inFlight[p] + Sum(S \ {p})
                 IN Sum(Coords)

Min(a, b) == IF a < b THEN a ELSE b

----------------------------------------------------------------------------
(* Initial state: lines 20-35, and createMinimap lines 356-365 *)

InitState ==
    /\ lastPosition = Null
    /\ lastPos = Null
    /\ lastValidPlaceName = "Unknown"
    /\ positionStatusTimeout = NoTimer
    /\ nominatimDebounceTimeout = Null
    /\ nominatimErrorCount = 0
    /\ nominatimErrorResetTimeout = NoTimer
    /\ locationCache = [k \in Keys |-> Null]
    /\ infoPanelClasses = {"disconnected"}
    /\ infoText = "Location: Waiting..."
    /\ inFlight = [p \in Coords |-> 0]
    /\ positionUpdateInterval = 0
    /\ sinceCall = 1
    /\ burstCalls = 0
    /\ burstRequests = 0
    /\ failRun = 0
    /\ failRunT = 0
    /\ errorRun = FALSE
    /\ sinceFailure = 0
    /\ sinceUpdate = 0
    /\ connectedFor = 0
    /\ outcome = "none"
    /\ polled = Null
    /\ shown = "none"
    /\ pending = [debounce |-> 0, status |-> 0, reset |-> 0, cleared |-> {}]

\* No function is applied on its own.
NoApply == arg = Null /\ ret = Null

\* The run with the history of the calls of updateInfoPanel.
Init == InitState /\ recording = {"calls"} /\ NoApply

\* The run with the history of the failed fetches.
InitFailures == InitState /\ recording = {"failures"} /\ NoApply

\* The run with the history of the failed fetches and the time since the
\* second failure of a run of failures.
InitMeasured == InitState /\ recording = {"failures", "gap"} /\ NoApply

\* The run with the history of the status: the time since the last position
\* update and the time the status has stayed connected.
InitStatus == InitState /\ recording = {"status"} /\ NoApply

\* The run with the history of how the last resolution ended.
InitOutcomes == InitState /\ recording = {"outcomes"} /\ NoApply

\* The run with the history of what the polling ticks got.
InitPolls == InitState /\ recording = {"polls"} /\ NoApply

\* The run with the history of whose text is shown.
InitOrder == InitState /\ recording = {"order"} /\ NoApply

\* The run with the history of the timers set, cleared and run.
InitTimers == InitState /\ recording = {"timers"} /\ NoApply

----------------------------------------------------------------------------
(* History variables: what each event adds to the record of the run *)

\* clearTimeout that clears nothing.
clearTimeoutNoop(isPending) == 0

\* Lines 496-498, 461-464 and 555-558: the number of timers that the guarded
\* clearTimeout takes away, given whether the timer of the handle is still to
\* run (the handle of a timer that has run clears nothing).
clearTimeout(isPending) == IF isPending THEN 1 ELSE 0

\* setTimeout after the guarded clearTimeout, for the timer kind: the count
\* of timers of that kind to run, and the kinds of which the function that
\* set a timer last (updateMinimap or performRequest) found one still to run.
restartTimer(p, kind, isPending) ==
    [p EXCEPT ![kind] = Min(@ - clearTimeout(isPending) + 1, 2),
              !.cleared = IF isPending THEN @ \cup {kind} ELSE @]

\* A call of updateInfoPanel: it continues the burst when the previous call
\* was less than 2000 ms ago, and starts a new burst otherwise.
HistoryCall ==
    /\ IF "calls" \in recording
       THEN /\ sinceCall' = 0
            /\ burstCalls' = IF sinceCall < 1
                             THEN Min(burstCalls + 1, 2) ELSE 1
            /\ burstRequests' = IF sinceCall < 1 THEN burstRequests ELSE 0
       ELSE UNCHANGED callVars
    /\ IF "status" \in recording
       THEN /\ sinceUpdate' = 0
            /\ connectedFor' = IF "connected" \in infoPanelClasses
                               THEN connectedFor ELSE 0
       ELSE UNCHANGED statusVars
    /\ shown' = IF "order" \in recording THEN "none" ELSE shown
    /\ pending' = IF "timers" \in recording
                  THEN restartTimer(
                           restartTimer([pending EXCEPT !.cleared = {}],
                                        "status",
                                        positionStatusTimeout # NoTimer),
                           "debounce", nominatimDebounceTimeout # Null)
                  ELSE pending
    /\ UNCHANGED <<failureVars, sinceFailure, outcome, applyVars, recording>>

\* A fetch is sent.
HistoryFetch ==
    /\ IF "calls" \in recording
       THEN /\ burstRequests' = Min(burstRequests + 1, 2)
            /\ UNCHANGED <<sinceCall, burstCalls>>
       ELSE UNCHANGED callVars
    /\ pending' = IF "timers" \in recording
                  THEN [pending EXCEPT !.debounce = @ - 1] ELSE pending
    /\ UNCHANGED <<failureVars, sinceFailure, statusVars, outcome, polled,
                   shown, applyVars, recording>>

\* A resolution completes with a place name, from the cache or the network.
HistorySuccess ==
    /\ IF "failures" \in recording
       THEN /\ failRun' = 0
            /\ failRunT' = 0
            /\ errorRun' = FALSE
       ELSE UNCHANGED failureVars
    /\ sinceFailure' = 0
    /\ connectedFor' = 0
    /\ UNCHANGED <<callVars, sinceUpdate, polled, applyVars, recording>>

\* A fetch fails.
HistoryFailure ==
    /\ IF "failures" \in recording
       THEN /\ failRun' = Min(failRun + 1, NOMINATIM_ERROR_THRESHOLD)
            /\ failRunT' = Min(failRunT + 1, NOMINATIM_ERROR_THRESHOLD)
            /\ errorRun' = (errorRun \/ "error" \in infoPanelClasses')
       ELSE UNCHANGED failureVars
    /\ sinceFailure' = 0
    /\ connectedFor' = IF "connected" \in infoPanelClasses'
                       THEN connectedFor ELSE 0
    /\ UNCHANGED <<callVars, sinceUpdate, polled, applyVars, recording>>

\* A resolution ends: from the cache ("cache"), with a response that parses
\* ("json"), or in the catch block after fetch rejected ("transport"), res.ok
\* was false ("http"), res.json() rejected ("badjson") or gave null ("null").
outcomeOf(response) ==
    IF response.kind = "json" /\ response.data = Null THEN "null"
    ELSE response.kind

\* The text written is that of the latest call of updateInfoPanel ("latest")
\* when its timer has run and this run of performRequest is for its position
\* and is a cache hit or ends the only fetch awaited for that position; it is
\* that of an earlier call, written over that of the latest ("stale"), when
\* this run is for another position than the latest call.
HistoryOutcome(kind, position) ==
    /\ outcome' = IF "outcomes" \in recording THEN kind ELSE outcome
    /\ shown' = IF "order" \notin recording THEN shown
                ELSE IF /\ position = lastPosition
                        /\ nominatimDebounceTimeout' = Null
                        /\ (kind = "cache" \/ inFlight[position] = 1)
                     THEN "latest"
                ELSE IF position # lastPosition /\ shown = "latest"
                     THEN "stale"
                ELSE shown
    /\ pending' = IF "timers" \notin recording THEN pending
                  ELSE IF kind = "cache"
                       THEN [pending EXCEPT !.debounce = @ - 1]
                  ELSE IF kind = "json"
                       THEN restartTimer([pending EXCEPT !.cleared = {}],
                                         "reset",
                                         nominatimErrorResetTimeout # NoTimer)
                  ELSE pending

\* The status timer runs.
HistoryStatusTimeout ==
    /\ connectedFor' = 0
    /\ pending' = IF "timers" \in recording
                  THEN [pending EXCEPT !.status = @ - 1] ELSE pending
    /\ UNCHANGED <<callVars, failureVars, sinceFailure, sinceUpdate, outcome,
                   polled, shown, applyVars, recording>>

\* The reset timer runs.
HistoryReset ==
    /\ failRunT' = 0
    /\ pending' = IF "timers" \in recording
                  THEN [pending EXCEPT !.reset = @ - 1] ELSE pending
    /\ UNCHANGED <<callVars, failRun, errorRun, sinceFailure, statusVars,
                   outcome, polled, shown, applyVars, recording>>

\* 2000 ms pass.
HistoryTick ==
    /\ sinceCall' = IF "calls" \in recording
                    THEN Min(sinceCall + 1, 1) ELSE sinceCall
    /\ sinceFailure' = IF "gap" \in recording /\ failRun = 2
                       THEN Min(sinceFailure + 1, NOMINATIM_ERROR_RESET_TIMEOUT + 1)
                       ELSE 0
    /\ sinceUpdate' = IF "status" \in recording
                      THEN Min(sinceUpdate + 1, STATUS_TIMEOUT + 1)
                      ELSE sinceUpdate
    /\ connectedFor' = IF "status" \in recording
                          /\ "connected" \in infoPanelClasses
                       THEN Min(connectedFor + 1, STATUS_TIMEOUT + 1)
                       ELSE 0
    /\ UNCHANGED <<burstCalls, burstRequests, failureVars, outcome, polled,
                   shown, pending, applyVars, recording>>

----------------------------------------------------------------------------
(* Operations *)

\* updateInfoPanel without lines 496-498: a pending timer is kept and the new
\* call is dropped.
updateInfoPanelKeepsPending(position) ==
    nominatimDebounceTimeout' =
        IF nominatimDebounceTimeout # Null THEN nominatimDebounceTimeout
        ELSE [remaining |-> DEBOUNCE_DELAY, position |-> position]

\* updateInfoPanel with no delay at line 585.
updateInfoPanelNoDelay(position) ==
    nominatimDebounceTimeout' = [remaining |-> 0, position |-> position]

\* updateInfoPanel, lines 490-499 and 584-585: cancel the pending debounce
\* timer and schedule performRequest for this position.
updateInfoPanel(position) ==
    nominatimDebounceTimeout' =
        [remaining |-> DEBOUNCE_DELAY, position |-> position]

\* The status classes after lines 458-459.
connectedClasses(classes) ==
    (classes \ {"disconnected", "error"}) \cup {"connected"}

\* updateMinimap, lines 451-487.
updateMinimap(position) ==
    /\ lastPosition' = position
    /\ infoPanelClasses' = connectedClasses(infoPanelClasses)
    /\ positionStatusTimeout' = STATUS_TIMEOUT
    /\ updateInfoPanel(position)
    /\ HistoryCall

\* The polling tick without the comparison of line 594: updateMinimap is
\* called with every position got.
PollTickAlways(pos) ==
    /\ positionUpdateInterval = 0
    /\ positionUpdateInterval' \in 0..POLL_INTERVAL
    /\ lastPos' = IF pos # Null THEN pos ELSE lastPos
    /\ polled' = IF "polls" \in recording THEN pos ELSE polled
    /\ IF pos # Null
       THEN updateMinimap(pos)
       ELSE /\ UNCHANGED <<lastPosition, infoPanelClasses,
                           positionStatusTimeout, nominatimDebounceTimeout>>
            /\ UNCHANGED histVars
    /\ UNCHANGED <<lastValidPlaceName, nominatimErrorCount,
                   nominatimErrorResetTimeout, locationCache, infoText,
                   inFlight>>

\* The polling tick with line 332 assigning lastPos whatever was got.
PollTickForgetsLastPos(pos) ==
    /\ positionUpdateInterval = 0
    /\ positionUpdateInterval' \in 0..POLL_INTERVAL
    /\ lastPos' = pos
    /\ polled' = IF "polls" \in recording THEN pos ELSE polled
    /\ IF /\ pos # Null
          /\ \/ lastPosition = Null
             \/ pos.lat # lastPosition.lat
             \/ pos.lng # lastPosition.lng
       THEN updateMinimap(pos)
       ELSE /\ UNCHANGED <<lastPosition, infoPanelClasses,
                           positionStatusTimeout, nominatimDebounceTimeout>>
            /\ UNCHANGED histVars
    /\ UNCHANGED <<lastValidPlaceName, nominatimErrorCount,
                   nominatimErrorResetTimeout, locationCache, infoText,
                   inFlight>>

\* The polling tick of startPositionUpdateInterval, lines 591-597, with
\* The polling tick with the fetches awaited dropped by updateMinimap.
PollTickCancelsRequests(pos) ==
    /\ positionUpdateInterval = 0
    /\ positionUpdateInterval' \in 0..POLL_INTERVAL
    /\ lastPos' = IF pos # Null THEN pos ELSE lastPos
    /\ polled' = IF "polls" \in recording THEN pos ELSE polled
    /\ IF /\ pos # Null
          /\ \/ lastPosition = Null
             \/ pos.lat # lastPosition.lat
             \/ pos.lng # lastPosition.lng
       THEN /\ updateMinimap(pos)
            /\ inFlight' = [p \in Coords |-> 0]
       ELSE /\ UNCHANGED <<lastPosition, infoPanelClasses,
                           positionStatusTimeout, nominatimDebounceTimeout,
                           inFlight>>
            /\ UNCHANGED histVars
    /\ UNCHANGED <<lastValidPlaceName, nominatimErrorCount,
                   nominatimErrorResetTimeout, locationCache, infoText>>

\* getCurrentPosition (line 330) returning pos.  The next tick comes after
\* POLL_INTERVAL, or less than 2000 ms later when this one ran late.  The
\* first tick stands for the call of lines 444-445.
PollTick(pos) ==
    /\ positionUpdateInterval = 0
    /\ positionUpdateInterval' \in 0..POLL_INTERVAL
    /\ lastPos' = IF pos # Null THEN pos ELSE lastPos
    /\ polled' = IF "polls" \in recording THEN pos ELSE polled
    /\ IF /\ pos # Null
          /\ \/ lastPosition = Null
             \/ pos.lat # lastPosition.lat
             \/ pos.lng # lastPosition.lng
       THEN updateMinimap(pos)
       ELSE /\ UNCHANGED <<lastPosition, infoPanelClasses,
                           positionStatusTimeout, nominatimDebounceTimeout>>
            /\ UNCHANGED histVars
    /\ UNCHANGED <<lastValidPlaceName, nominatimErrorCount,
                   nominatimErrorResetTimeout, locationCache, infoText,
                   inFlight>>

\* Lines 468-469 removing the error class as well.
disconnectedClassesClearsError(classes) ==
    (classes \ {"connected", "error"}) \cup {"disconnected"}

\* Lines 468-469 without the remove of line 468.
disconnectedClassesKeepsConnected(classes) == classes \cup {"disconnected"}

\* The status classes after lines 468-469.
disconnectedClasses(classes) == (classes \ {"connected"}) \cup {"disconnected"}

\* The status timer callback, lines 466-471.
StatusTimeoutFires ==
    /\ positionStatusTimeout = 0
    /\ positionStatusTimeout' = NoTimer
    /\ infoPanelClasses' = disconnectedClasses(infoPanelClasses)
    /\ UNCHANGED <<lastPosition, lastPos, lastValidPlaceName,
                   nominatimDebounceTimeout, nominatimErrorCount,
                   nominatimErrorResetTimeout, locationCache, infoText,
                   inFlight, positionUpdateInterval>>
    /\ HistoryStatusTimeout

\* The debounce timer is due: performRequest starts.
DebounceDue ==
    /\ nominatimDebounceTimeout # Null
    /\ nominatimDebounceTimeout.remaining = 0

\* Line 509 left out: placeName keeps its initial value of line 502.
cachedPlaceNameUnset(cache, position) == "Unknown"

\* Line 509: the name of the entry under the key of the position.
cachedPlaceName(cache, position) == cache[cachedKeyOf(position)].name

\* performRequest on a cache hit with the reset of line 554 added.
PerformRequestCachedResetsCount ==
    /\ DebounceDue
    /\ cacheHit(locationCache, nominatimDebounceTimeout.position)
    /\ LET placeName ==
               cachedPlaceName(locationCache, nominatimDebounceTimeout.position)
       IN /\ lastValidPlaceName' = placeName
          /\ infoText' = "Location: " \o placeName
    /\ nominatimDebounceTimeout' = Null
    /\ nominatimErrorCount' = 0
    /\ UNCHANGED <<lastPosition, lastPos, positionStatusTimeout,
                   nominatimErrorResetTimeout, locationCache,
                   infoPanelClasses, inFlight, positionUpdateInterval>>
    /\ HistorySuccess
    /\ HistoryOutcome("cache", nominatimDebounceTimeout.position)

\* performRequest on a cache hit with the classes of lines 458-459 set after
\* line 510.
PerformRequestCachedSetsConnected ==
    /\ DebounceDue
    /\ cacheHit(locationCache, nominatimDebounceTimeout.position)
    /\ LET placeName ==
               cachedPlaceName(locationCache, nominatimDebounceTimeout.position)
       IN /\ lastValidPlaceName' = placeName
          /\ infoText' = "Location: " \o placeName
    /\ nominatimDebounceTimeout' = Null
    /\ infoPanelClasses' = connectedClasses(infoPanelClasses)
    /\ UNCHANGED <<lastPosition, lastPos, positionStatusTimeout,
                   nominatimErrorCount, nominatimErrorResetTimeout,
                   locationCache, inFlight, positionUpdateInterval>>
    /\ HistorySuccess
    /\ HistoryOutcome("cache", nominatimDebounceTimeout.position)

\* performRequest when the cache has a valid entry, lines 501-511 and 581.
PerformRequestCached ==
    /\ DebounceDue
    /\ cacheHit(locationCache, nominatimDebounceTimeout.position)
    /\ LET placeName ==
               cachedPlaceName(locationCache, nominatimDebounceTimeout.position)
       IN /\ lastValidPlaceName' = placeName
          /\ infoText' = "Location: " \o placeName
    /\ nominatimDebounceTimeout' = Null
    /\ UNCHANGED <<lastPosition, lastPos, positionStatusTimeout,
                   nominatimErrorCount, nominatimErrorResetTimeout,
                   locationCache, infoPanelClasses, inFlight,
                   positionUpdateInterval>>
    /\ HistorySuccess
    /\ HistoryOutcome("cache", nominatimDebounceTimeout.position)

\* performRequest sending the request of line 514 twice.
PerformRequestFetchTwice ==
    /\ DebounceDue
    /\ ~cacheHit(locationCache, nominatimDebounceTimeout.position)
    /\ InFlightCount + 1 < MaxInFlight
    /\ inFlight' = [inFlight EXCEPT ![nominatimDebounceTimeout.position] = @ + 2]
    /\ nominatimDebounceTimeout' = Null
    /\ UNCHANGED <<lastPosition, lastPos, lastValidPlaceName,
                   positionStatusTimeout, nominatimErrorCount,
                   nominatimErrorResetTimeout, locationCache,
                   infoPanelClasses, infoText, positionUpdateInterval>>
    /\ HistoryFetch

\* performRequest up to the fetch when the cache has no valid entry, lines
\* 501-514: the request is sent.
PerformRequestFetch ==
    /\ DebounceDue
    /\ ~cacheHit(locationCache, nominatimDebounceTimeout.position)
    /\ InFlightCount < MaxInFlight
    /\ inFlight' = [inFlight EXCEPT ![nominatimDebounceTimeout.position] = @ + 1]
    /\ nominatimDebounceTimeout' = Null
    /\ UNCHANGED <<lastPosition, lastPos, lastValidPlaceName,
                   positionStatusTimeout, nominatimErrorCount,
                   nominatimErrorResetTimeout, locationCache,
                   infoPanelClasses, infoText, positionUpdateInterval>>
    /\ HistoryFetch

\* Lines 553-562 without line 554.
resetErrorCountKeepsCount ==
    /\ UNCHANGED nominatimErrorCount
    /\ nominatimErrorResetTimeout' = NOMINATIM_ERROR_RESET_TIMEOUT

\* Lines 553-562: the error count is zeroed and the reset timer restarted.
resetErrorCount ==
    /\ nominatimErrorCount' = 0
    /\ nominatimErrorResetTimeout' = NOMINATIM_ERROR_RESET_TIMEOUT

\* performRequest from the response on, with the cache emptied before an
\* entry is written.
ResponseSuccessEvicts(position, response) ==
    /\ inFlight[position] > 0
    /\ ~throws(response)
    /\ inFlight' = [inFlight EXCEPT ![position] = @ - 1]
    /\ resetErrorCount
    /\ LET r == parseResponse(response)
       IN /\ infoText' = "Location: " \o r.placeName
          /\ lastValidPlaceName' =
                 IF r.store THEN r.placeName ELSE lastValidPlaceName
          /\ locationCache' =
                 IF r.store
                 THEN [k \in Keys |->
                         IF k = cachedKeyOf(position)
                         THEN [lat |-> position.lat, lng |-> position.lng,
                               name |-> r.placeName]
                         ELSE Null]
                 ELSE locationCache
    /\ UNCHANGED <<lastPosition, lastPos, positionStatusTimeout,
                   nominatimDebounceTimeout, infoPanelClasses,
                   positionUpdateInterval>>
    /\ HistorySuccess
    /\ HistoryOutcome(outcomeOf(response), position)

\* performRequest from the response on, with the key of line 506 made from
\* lastPosition.
ResponseSuccessStoresUnderLatest(position, response) ==
    /\ inFlight[position] > 0
    /\ ~throws(response)
    /\ inFlight' = [inFlight EXCEPT ![position] = @ - 1]
    /\ resetErrorCount
    /\ LET r == parseResponse(response)
       IN /\ infoText' = "Location: " \o r.placeName
          /\ lastValidPlaceName' =
                 IF r.store THEN r.placeName ELSE lastValidPlaceName
          /\ locationCache' =
                 IF r.store
                 THEN [locationCache EXCEPT ![cachedKeyOf(lastPosition)] =
                          [lat |-> position.lat, lng |-> position.lng,
                           name |-> r.placeName]]
                 ELSE locationCache
    /\ UNCHANGED <<lastPosition, lastPos, positionStatusTimeout,
                   nominatimDebounceTimeout, infoPanelClasses,
                   positionUpdateInterval>>
    /\ HistorySuccess
    /\ HistoryOutcome(outcomeOf(response), position)

\* performRequest from the response on, lines 515-562 and 581: the response
\* parses.
ResponseSuccess(position, response) ==
    /\ inFlight[position] > 0
    /\ ~throws(response)
    /\ inFlight' = [inFlight EXCEPT ![position] = @ - 1]
    /\ resetErrorCount
    /\ LET r == parseResponse(response)
       IN /\ infoText' = "Location: " \o r.placeName
          /\ lastValidPlaceName' =
                 IF r.store THEN r.placeName ELSE lastValidPlaceName
          /\ locationCache' =
                 IF r.store
                 THEN [locationCache EXCEPT ![cachedKeyOf(position)] =
                          [lat |-> position.lat, lng |-> position.lng,
                           name |-> r.placeName]]
                 ELSE locationCache
    /\ UNCHANGED <<lastPosition, lastPos, positionStatusTimeout,
                   nominatimDebounceTimeout, infoPanelClasses,
                   positionUpdateInterval>>
    /\ HistorySuccess
    /\ HistoryOutcome(outcomeOf(response), position)

\* Lines 572-573 without the add of line 573.
errorClassesNotAdded(classes) == classes \ {"connected", "disconnected"}

\* The status classes after lines 572-573.
errorClasses(classes) == (classes \ {"connected", "disconnected"}) \cup {"error"}

\* The catch block assigning its text to lastValidPlaceName as well.
ResponseFailureStoresFallback(position, response) ==
    /\ inFlight[position] > 0
    /\ throws(response)
    /\ nominatimErrorCount < MaxErrorCount
    /\ inFlight' = [inFlight EXCEPT ![position] = @ - 1]
    /\ nominatimErrorCount' = nominatimErrorCount + 1
    /\ IF nominatimErrorCount' >= NOMINATIM_ERROR_THRESHOLD
       THEN /\ infoText' = "Location: " \o "Location Service Unavailable"
            /\ lastValidPlaceName' = "Location Service Unavailable"
            /\ infoPanelClasses' = errorClasses(infoPanelClasses)
       ELSE /\ infoText' = "Location: " \o fallbackName(lastValidPlaceName)
            /\ lastValidPlaceName' = fallbackName(lastValidPlaceName)
            /\ UNCHANGED infoPanelClasses
    /\ UNCHANGED <<lastPosition, lastPos, positionStatusTimeout,
                   nominatimDebounceTimeout, nominatimErrorResetTimeout,
                   locationCache, positionUpdateInterval>>
    /\ HistoryFailure
    /\ HistoryOutcome(outcomeOf(response), position)

\* The catch block throwing in its turn after line 568: line 581 is not
\* reached.
ResponseFailureNoText(position, response) ==
    /\ inFlight[position] > 0
    /\ throws(response)
    /\ nominatimErrorCount < MaxErrorCount
    /\ inFlight' = [inFlight EXCEPT ![position] = @ - 1]
    /\ nominatimErrorCount' = nominatimErrorCount + 1
    /\ UNCHANGED <<lastPosition, lastPos, lastValidPlaceName,
                   positionStatusTimeout, nominatimDebounceTimeout,
                   nominatimErrorResetTimeout, locationCache,
                   infoPanelClasses, infoText, positionUpdateInterval>>
    /\ HistoryFailure
    /\ HistoryOutcome(outcomeOf(response), position)

\* The catch block without the test of line 570: every failure sets the
\* error status.
ResponseFailureAlwaysError(position, response) ==
    /\ inFlight[position] > 0
    /\ throws(response)
    /\ nominatimErrorCount < MaxErrorCount
    /\ inFlight' = [inFlight EXCEPT ![position] = @ - 1]
    /\ nominatimErrorCount' = nominatimErrorCount + 1
    /\ infoText' = "Location: " \o "Location Service Unavailable"
    /\ infoPanelClasses' = errorClasses(infoPanelClasses)
    /\ UNCHANGED <<lastPosition, lastPos, lastValidPlaceName,
                   positionStatusTimeout, nominatimDebounceTimeout,
                   nominatimErrorResetTimeout, locationCache,
                   positionUpdateInterval>>
    /\ HistoryFailure
    /\ HistoryOutcome(outcomeOf(response), position)

\* performRequest from the response on, lines 515-518 and 564-581: the fetch
\* or the parsing throws and the catch block runs.
ResponseFailure(position, response) ==
    /\ inFlight[position] > 0
    /\ throws(response)
    /\ nominatimErrorCount < MaxErrorCount
    /\ inFlight' = [inFlight EXCEPT ![position] = @ - 1]
    /\ nominatimErrorCount' = nominatimErrorCount + 1
    /\ IF nominatimErrorCount' >= NOMINATIM_ERROR_THRESHOLD
       THEN /\ infoText' = "Location: " \o "Location Service Unavailable"
            /\ infoPanelClasses' = errorClasses(infoPanelClasses)
       ELSE /\ infoText' = "Location: " \o fallbackName(lastValidPlaceName)
            /\ UNCHANGED infoPanelClasses
    /\ UNCHANGED <<lastPosition, lastPos, lastValidPlaceName,
                   positionStatusTimeout, nominatimDebounceTimeout,
                   nominatimErrorResetTimeout, locationCache,
                   positionUpdateInterval>>
    /\ HistoryFailure
    /\ HistoryOutcome(outcomeOf(response), position)

\* The reset timer callback with the error class removed after line 561.
ErrorResetFiresClearsError ==
    /\ nominatimErrorResetTimeout = 0
    /\ nominatimErrorResetTimeout' = NoTimer
    /\ nominatimErrorCount' = 0
    /\ infoPanelClasses' = infoPanelClasses \ {"error"}
    /\ UNCHANGED <<lastPosition, lastPos, lastValidPlaceName,
                   positionStatusTimeout, nominatimDebounceTimeout,
                   locationCache, infoText, inFlight,
                   positionUpdateInterval>>
    /\ HistoryReset

\* The reset timer callback, lines 560-562.
ErrorResetFires ==
    /\ nominatimErrorResetTimeout = 0
    /\ nominatimErrorResetTimeout' = NoTimer
    /\ nominatimErrorCount' = 0
    /\ UNCHANGED <<lastPosition, lastPos, lastValidPlaceName,
                   positionStatusTimeout, nominatimDebounceTimeout,
                   locationCache, infoPanelClasses, infoText, inFlight,
                   positionUpdateInterval>>
    /\ HistoryReset

Countdown(t) == IF t = NoTimer THEN NoTimer ELSE t - 1

\* 2000 ms pass: possible when no timer is due.
Tick ==
    /\ positionUpdateInterval > 0
    /\ positionStatusTimeout # 0
    /\ nominatimErrorResetTimeout # 0
    /\ ~DebounceDue
    /\ positionUpdateInterval' = positionUpdateInterval - 1
    /\ positionStatusTimeout' = Countdown(positionStatusTimeout)
    /\ nominatimErrorResetTimeout' = Countdown(nominatimErrorResetTimeout)
    /\ nominatimDebounceTimeout' =
           IF nominatimDebounceTimeout = Null THEN Null
           ELSE [nominatimDebounceTimeout EXCEPT !.remaining = @ - 1]
    /\ UNCHANGED <<lastPosition, lastPos, lastValidPlaceName,
                   nominatimErrorCount, locationCache, infoPanelClasses,
                   infoText, inFlight>>
    /\ HistoryTick

Next ==
    \/ \E pos \in Coords \cup {Null} : PollTick(pos)
    \/ StatusTimeoutFires
    \/ PerformRequestCached
    \/ PerformRequestFetch
    \/ \E position \in Coords, response \in Responses :
           ResponseSuccess(position, response)
    \/ \E position \in Coords, response \in Responses :
           ResponseFailure(position, response)
    \/ ErrorResetFires
    \/ Tick

Spec == Init /\ [][Next]_vars

SpecFailures == InitFailures /\ [][Next]_vars

SpecMeasured == InitMeasured /\ [][Next]_vars

SpecStatus == InitStatus /\ [][Next]_vars

SpecOutcomes == InitOutcomes /\ [][Next]_vars

SpecPolls == InitPolls /\ [][Next]_vars

SpecOrder == InitOrder /\ [][Next]_vars

SpecTimers == InitTimers /\ [][Next]_vars

\* The responses that tell the two ways performRequest ends after a fetch: fetch
\* rejects, and a body with an address.
LiveResponses ==
    { [kind |-> "transport"],
      Json(Addr("France", "Paris", "", ""), "Paris, Ile-de-France, France") }

\* A fetch completes.
Response ==
    \E position \in Coords, response \in LiveResponses :
        \/ ResponseSuccess(position, response)
        \/ ResponseFailure(position, response)

NextLive ==
    \/ \E pos \in Coords \cup {Null} : PollTick(pos)
    \/ StatusTimeoutFires
    \/ PerformRequestCached
    \/ PerformRequestFetch
    \/ \E position \in Coords, response \in LiveResponses :
           ResponseSuccess(position, response)
    \/ \E position \in Coords, response \in LiveResponses :
           ResponseFailure(position, response)
    \/ ErrorResetFires
    \/ Tick

\* The event loop runs every callback that is due: the interval of line 591,
\* the timers of lines 466, 560 and 585, and the continuation of a fetch
\* when a response has come; and time passes.
Fairness ==
    /\ WF_vars(Tick)
    /\ WF_vars(\E pos \in Coords \cup {Null} : PollTick(pos))
    /\ WF_vars(StatusTimeoutFires)
    /\ WF_vars(PerformRequestCached)
    /\ WF_vars(PerformRequestFetch)
    /\ WF_vars(ErrorResetFires)
    /\ WF_vars(Response)

SpecLive == InitOrder /\ [][NextLive]_vars /\ Fairness

----------------------------------------------------------------------------
(* The functions applied on their own *)

\* The responses given to the try block: every address of the fields below,
\* and no address, each with every display name.
ResponseInputs ==
    {Json(Addr(country, city, town, village), display_name) :
        country \in {"", "France", "Unknown"}, city \in {"", "Paris"},
        town \in {"", "Vanves"}, village \in {"", "Bourg"},
        display_name \in {"", "Paris, Ile-de-France, France"}}
    \cup {Json(Null, display_name) :
            display_name \in {"", "Paris, Ile-de-France, France",
                              "No details found"}}

\* The points given to isCachedLocationValid, in units of 1e-7 degree: at
\* 99 m and at 100 m from the origin along an axis (8993, 8994) and along the
\* diagonal (6359, 6360).
Points == {Pos(la, ln) : la \in {0, 1000, 6359, 6360, 8993, 8994},
                         ln \in {0, 6359, 6360}}

Args ==
    {[fn |-> "getCurrentPosition", iframes |-> page] : page \in Pages}
    \cup {[fn |-> "parseResponse", response |-> r] : r \in ResponseInputs}
    \cup {[fn |-> "isCachedLocationValid", a |-> a, b |-> b] :
            a \in Points, b \in Points}

InitFunctions == InitState /\ recording = {} /\ arg \in Args /\ ret = Null

\* What the functions below, other than getCurrentPosition, leave alone.
resolutionVars == <<lastPosition, lastValidPlaceName, positionStatusTimeout,
                    nominatimDebounceTimeout, nominatimErrorCount,
                    nominatimErrorResetTimeout, locationCache,
                    infoPanelClasses, infoText, inFlight,
                    positionUpdateInterval,
                    sinceCall, burstCalls, burstRequests, failRun, failRunT,
                    errorRun, sinceFailure, sinceUpdate, connectedFor,
                    outcome, polled, shown, pending, arg, recording>>

\* getCurrentPosition, line 330, on the page arg.iframes.
GetCurrentPosition ==
    /\ arg.fn = "getCurrentPosition"
    /\ LET p == currentPosition(arg.iframes)
       IN /\ ret' = [returned |-> p]
          /\ lastPos' = IF p # Null THEN p ELSE lastPos
    /\ UNCHANGED resolutionVars

\* Lines 519-552 on the response arg.response.
ParseResponse ==
    /\ arg.fn = "parseResponse"
    /\ ret' = [returned |-> parseResponse(arg.response)]
    /\ UNCHANGED <<resolutionVars, lastPos>>

\* isCachedLocationValid, lines 70-73, on the points arg.a and arg.b.
IsCachedLocationValid ==
    /\ arg.fn = "isCachedLocationValid"
    /\ ret' = [returned |->
                 isCachedLocationValid(arg.a.lat, arg.a.lng,
                                       arg.b.lat, arg.b.lng)]
    /\ UNCHANGED <<resolutionVars, lastPos>>

NextFunctions ==
    \/ GetCurrentPosition
    \/ ParseResponse
    \/ IsCachedLocationValid

SpecFunctions == InitFunctions /\ [][NextFunctions]_vars

----------------------------------------------------------------------------
(* Steps, as seen in the state *)

\* updateMinimap ran: it is only called with a position that differs.
CallStep == lastPosition' # lastPosition

\* The debounce timer ran performRequest.
FireStep == DebounceDue /\ nominatimDebounceTimeout' = Null

\* A fetch completes and the response parses.
NetworkSuccessStep ==
    /\ inFlight' # inFlight
    /\ \E position \in Coords, response \in Responses :
           ResponseSuccess(position, response)

\* A resolution completes with a place name.
SuccessStep == PerformRequestCached \/ NetworkSuccessStep

\* A fetch completes and the catch block runs.
FailureStep ==
    /\ inFlight' # inFlight
    /\ \E position \in Coords, response \in Responses :
           ResponseFailure(position, response)

----------------------------------------------------------------------------
(* Properties *)

\* C1: in a burst of updateInfoPanel calls, each less than 2000 ms after the
\* one before, at most one fetch is sent from the first call of the burst
\* until the next burst begins.
C1_AtMostOneRequestPerBurst == burstRequests <= 1

C1_Witness == burstCalls >= 2 /\ burstRequests = 1

\* C2: every call schedules performRequest 2000 ms later for its own
\* position, replacing what was scheduled; performRequest runs only when the
\* latest call is 2000 ms old, and for the position of that call.
C2_DebounceReschedules ==
    [][ /\ CallStep =>
             nominatimDebounceTimeout' =
                 [remaining |-> 1, position |-> lastPosition']
        /\ FireStep =>
             /\ sinceCall = 1
             /\ nominatimDebounceTimeout.position = lastPosition ]_vars

C2_Witness ==
    /\ burstCalls >= 2
    /\ nominatimDebounceTimeout = Null
    /\ inFlight[lastPosition] > 0

\* C3: when performRequest runs for a position less than 100 m from the
\* position of a cache entry, under whatever key, it shows the name of that
\* entry and sends no fetch.
C3_NearbyServedFromCache ==
    [][ FireStep =>
          \A k \in Keys :
             ( /\ locationCache[k] # Null
               /\ isCachedLocationValid(nominatimDebounceTimeout.position.lat,
                                        nominatimDebounceTimeout.position.lng,
                                        locationCache[k].lat,
                                        locationCache[k].lng) )
             => /\ infoText' = "Location: " \o locationCache[k].name
                /\ inFlight' = inFlight ]_vars

\* C4: when performRequest finds a valid entry under the key of its position,
\* it sends no fetch, shows the name of the entry and makes it
\* lastValidPlaceName.
C4_CacheHitNoRequest ==
    [][ ( /\ FireStep
          /\ locationCache[cachedKeyOf(nominatimDebounceTimeout.position)] # Null )
        => LET entry ==
                 locationCache[cachedKeyOf(nominatimDebounceTimeout.position)]
           IN /\ inFlight' = inFlight
              /\ infoText' = "Location: " \o entry.name
              /\ lastValidPlaceName' = entry.name ]_vars

C4_Witness ==
    /\ burstCalls >= 1
    /\ burstRequests = 0
    /\ nominatimDebounceTimeout = Null
    /\ locationCache[cachedKeyOf(lastPosition)] # Null
    /\ infoText = "Location: " \o locationCache[cachedKeyOf(lastPosition)].name
    /\ lastValidPlaceName = locationCache[cachedKeyOf(lastPosition)].name

C6_Original ==
    [][ (errorRun /\ SuccessStep)
        => /\ nominatimErrorCount' = 0
           /\ infoPanelClasses' = {"connected"} ]_vars

\* C6 amended: once failures have set the error status, the next successful
\* fetch leaves the error count at 0 and the status as it was, and a
\* resolution served from the cache changes neither; it is the position update
\* that sets the status to connected.
C6_SuccessAfterError ==
    [][ /\ (errorRun /\ NetworkSuccessStep)
             => /\ nominatimErrorCount' = 0
                /\ infoPanelClasses' = infoPanelClasses
        /\ (errorRun /\ PerformRequestCached)
             => /\ nominatimErrorCount' = nominatimErrorCount
                /\ infoPanelClasses' = infoPanelClasses
        /\ CallStep => infoPanelClasses' = {"connected"} ]_vars

C6_Witness ==
    /\ "error" \in infoPanelClasses
    /\ nominatimErrorCount = 0
    /\ nominatimErrorResetTimeout = 15

\* C7 as claimed: the error status is removed only by a resolution that
\* completes with a place name.
C7_Original ==
    [][ ("error" \in infoPanelClasses /\ "error" \notin infoPanelClasses')
        => SuccessStep ]_vars

\* C7 amended: the error status is removed only by a position update; no
\* resolution outcome and no timer expiry removes it.
C7_ErrorLeavesOnPositionUpdate ==
    [][ ("error" \in infoPanelClasses /\ "error" \notin infoPanelClasses')
        => CallStep ]_vars

C7_Witness ==
    /\ nominatimErrorCount >= 3
    /\ "error" \notin infoPanelClasses
    /\ "connected" \in infoPanelClasses

\* C8: when a fetch fails after exactly two failures in a row and more than
\* 30000 ms without a failure or a success, the status does not become error.
C8_Original ==
    [][ ( /\ FailureStep
          /\ failRun = 2
          /\ sinceFailure > 15 )
        => "error" \notin infoPanelClasses' ]_vars

\* C9: every failed fetch adds one to the error count and restarts the reset
\* timer.
C9_Original ==
    [][ FailureStep
        => /\ nominatimErrorCount' = nominatimErrorCount + 1
           /\ nominatimErrorResetTimeout' = NOMINATIM_ERROR_RESET_TIMEOUT ]_vars

\* C10 as claimed: every resolution that completes with a place name, from
\* the cache or from the network, leaves the error count at 0.
C10_Original == [][ SuccessStep => nominatimErrorCount' = 0 ]_vars

\* C10 amended: a successful fetch leaves the error count at 0; a resolution
\* served from the cache leaves the error count as it was.
C10_OnlyFetchResetsCount ==
    [][ /\ NetworkSuccessStep => nominatimErrorCount' = 0
        /\ PerformRequestCached => nominatimErrorCount' = nominatimErrorCount
      ]_vars

C10_Witness ==
    /\ nominatimErrorCount > 0
    /\ lastValidPlaceName # "Unknown"
    /\ infoText = "Location: " \o lastValidPlaceName

C12_Original ==
    [][ SuccessStep => "connected" \in infoPanelClasses' ]_vars

\* C12 amended: a resolution that completes with a place name, from the cache
\* or from the network, leaves the status classes as they were; a status that
\* the status timer made disconnected while the fetch was awaited stays
\* disconnected.
C12_SuccessKeepsStatus ==
    [][ SuccessStep => infoPanelClasses' = infoPanelClasses ]_vars

C12_Witness ==
    /\ infoPanelClasses = {"disconnected"}
    /\ positionStatusTimeout = NoTimer
    /\ nominatimErrorResetTimeout = 15
    /\ lastValidPlaceName # "Unknown"
    /\ infoText = "Location: " \o lastValidPlaceName

\* C13 as claimed: a status that is connected does not stay connected for
\* more than 8000 ms in which no resolution completes with a place name,
\* whatever position updates arrive.
C13_Original == connectedFor <= 4

\* C13 amended: a status that is connected does not stay connected for more
\* than 8000 ms after the last position update: the status timer, restarted by
\* every position update and by nothing else, removes it.
C13_ConnectedWithinUpdateTimeout ==
    "connected" \in infoPanelClasses
        => /\ sinceUpdate <= 4
           /\ positionStatusTimeout = 4 - sinceUpdate

C13_Witness ==
    /\ sinceUpdate = 4
    /\ lastPosition # Null
    /\ positionStatusTimeout = NoTimer
    /\ "disconnected" \in infoPanelClasses
    /\ "connected" \notin infoPanelClasses

\* The status timer ran its callback.
StatusTimeoutStep == positionStatusTimeout = 0 /\ StatusTimeoutFires

\* C14 as claimed: the status classes change only when a resolution ends, with
\* a place name or with a failure, or when the status timer or the reset timer
\* runs; a position update does not change them.
C14_Original ==
    [][ infoPanelClasses' # infoPanelClasses
        => \/ SuccessStep
           \/ FailureStep
           \/ StatusTimeoutStep
           \/ ErrorResetFires ]_vars

\* C14 amended: the status classes change only at a position update, which
\* makes them connected before any resolution for it has ended, when the status
\* timer runs, which adds disconnected, or when a fetch fails with the error
\* count at the threshold or above, which makes them error.
C14_StatusChangesOnUpdate ==
    [][ infoPanelClasses' # infoPanelClasses
        => \/ CallStep /\ infoPanelClasses' = {"connected"}
           \/ StatusTimeoutStep /\ "disconnected" \in infoPanelClasses'
           \/ /\ FailureStep
              /\ nominatimErrorCount' >= 3
              /\ infoPanelClasses' = {"error"} ]_vars

C14_Witness ==
    /\ infoPanelClasses = {"connected"}
    /\ nominatimDebounceTimeout # Null
    /\ lastValidPlaceName = "Unknown"
    /\ InFlightCount = 0
    /\ infoText = "Location: Waiting..."

\* C15: exactly one of the classes connected, disconnected and error is set.
C15_Original ==
    Cardinality(infoPanelClasses \cap {"connected", "disconnected", "error"}) = 1

\* C16 as claimed: after every failed fetch, at the threshold and beyond too,
\* the text is the last valid place name with " (Last Known)" when there is
\* one, and the name-unavailable text otherwise.
C16_Original ==
    [][ FailureStep
        => infoText' =
             IF lastValidPlaceName # "Unknown"
             THEN "Location: " \o lastValidPlaceName \o " (Last Known)"
             ELSE "Location: Location Name Unavailable" ]_vars

\* C16 amended: after a failed fetch that leaves the error count below 3 the
\* text is the last valid place name with " (Last Known)" when there is one
\* and the name-unavailable text otherwise; after a failed fetch that leaves
\* the error count at 3 or above the text is the service-unavailable text,
\* whatever the last valid place name.
C16_FailureText ==
    [][ FailureStep
        => infoText' =
             IF nominatimErrorCount' >= 3
             THEN "Location: Location Service Unavailable"
             ELSE IF lastValidPlaceName # "Unknown"
             THEN "Location: " \o lastValidPlaceName \o " (Last Known)"
             ELSE "Location: Location Name Unavailable" ]_vars

C16_Witness ==
    /\ nominatimErrorCount >= 4
    /\ lastValidPlaceName = "France, Paris"
    /\ infoText = "Location: Location Service Unavailable"

\* C17: a failed fetch leaves locationCache and lastValidPlaceName as they
\* were; locationCache changes only when a fetch completes with a response that
\* parses, lastValidPlaceName only then or on a cache hit; no entry holds one
\* of the texts shown after a failure.
C17_FailureKeepsCache ==
    [][ /\ FailureStep => /\ locationCache' = locationCache
                          /\ lastValidPlaceName' = lastValidPlaceName
        /\ locationCache' # locationCache => NetworkSuccessStep
        /\ lastValidPlaceName' # lastValidPlaceName => SuccessStep
        /\ \A k \in Keys :
              locationCache'[k] # Null
              => locationCache'[k].name \notin
                    { "Location Service Unavailable",
                      "Location Name Unavailable",
                      "France, Paris (Last Known)",
                      " (Last Known)" } ]_vars

C17_Witness ==
    /\ nominatimErrorCount = 1
    /\ lastValidPlaceName = "France, Paris"
    /\ infoText = "Location: France, Paris (Last Known)"
    /\ \E k \in Keys : /\ locationCache[k] # Null
                        /\ locationCache[k].name = "France, Paris"

\* C18: no entry of locationCache holds the empty string, "Unknown" or
\* "No details found" as its name, and lastValidPlaceName is never the empty
\* string or "No details found".
C18_Original ==
    /\ \A k \in Keys :
          locationCache[k] # Null
          => locationCache[k].name \notin {"", "Unknown", "No details found"}
    /\ lastValidPlaceName \notin {"", "No details found"}

\* A fetch completes, with whatever response.
ResponseStep == \E position \in Coords : inFlight'[position] < inFlight[position]

\* C19: a response with res.ok, whatever its body, does not add to the error
\* count.
C19_Original ==
    [][ (ResponseStep /\ outcome' \in {"json", "null", "badjson"})
        => nominatimErrorCount' <= nominatimErrorCount ]_vars

\* C20: every run of performRequest ends with line 581: on a cache hit the
\* text is the name of the entry; after a response that parses it is the name
\* made from the response; after fetch rejected, res.ok was false, res.json()
\* rejected or the body was null, the catch block ran (the error count went up
\* by one) and the text is one of the texts of lines 571 and 575.
C20_EveryResolutionWritesText ==
    [][ /\ (FireStep /\ inFlight' = inFlight)
             => /\ outcome' = "cache"
                /\ infoText' = "Location: " \o
                     locationCache[cachedKeyOf(nominatimDebounceTimeout.position)].name
        /\ ResponseStep
             => \/ /\ outcome' = "json"
                   /\ infoText' \in { "Location: France, Paris", "Location: ",
                                      "Location: No details found" }
                \/ /\ outcome' \in {"transport", "http", "badjson", "null"}
                   /\ nominatimErrorCount' = nominatimErrorCount + 1
                   /\ infoText' \in
                        { "Location: Location Service Unavailable",
                          "Location: Location Name Unavailable",
                          "Location: " \o lastValidPlaceName \o " (Last Known)" }
      ]_vars

C20_Witness ==
    /\ outcome = "null"
    /\ nominatimErrorCount = 1
    /\ infoText = "Location: Location Name Unavailable"

\* The polling tick ran and getCurrentPosition returned pos.
PollStep(pos) ==
    /\ positionUpdateInterval = 0
    /\ polled' = pos
    /\ PollTick(pos)

\* C21: a polling tick calls updateMinimap, which makes the status connected,
\* restarts the status timer and schedules performRequest for the position,
\* when the position got is present and differs from lastPosition in lat or
\* lng; otherwise it leaves lastPosition, the debounce timer, the status and
\* the status timer as they were.
C21_ResolveIffDiffers ==
    [][ \A pos \in Coords \cup {Null} :
          PollStep(pos)
          => IF /\ pos # Null
                /\ \/ lastPosition = Null
                   \/ pos.lat # lastPosition.lat
                   \/ pos.lng # lastPosition.lng
             THEN /\ lastPosition' = pos
                  /\ nominatimDebounceTimeout' =
                         [remaining |-> 1, position |-> pos]
                  /\ positionStatusTimeout' = 4
                  /\ infoPanelClasses' = {"connected"}
             ELSE UNCHANGED <<lastPosition, nominatimDebounceTimeout,
                              positionStatusTimeout, infoPanelClasses>> ]_vars

C21_Witness ==
    /\ polled # Null
    /\ polled = lastPosition
    /\ positionStatusTimeout \in 0..2
    /\ "connected" \in infoPanelClasses

\* C22: a polling tick on which getCurrentPosition returns null leaves
\* lastPosition, lastPos, the debounce timer, the status and its timer, the
\* error count and its timer, the cache, lastValidPlaceName, the text and the
\* fetches awaited as they were.
C22_AbsentPollChangesNothing ==
    [][ PollStep(Null)
        => UNCHANGED <<lastPosition, lastPos, nominatimDebounceTimeout,
                       infoPanelClasses, positionStatusTimeout,
                       nominatimErrorCount, nominatimErrorResetTimeout,
                       locationCache, lastValidPlaceName, infoText,
                       inFlight>> ]_vars

C22_Witness ==
    /\ polled = Null
    /\ lastPos # Null
    /\ lastPos = lastPosition
    /\ positionStatusTimeout = 3
    /\ nominatimDebounceTimeout # Null

\* C23: getCurrentPosition returns null when no iframe has the embed pattern
\* in its src, when the URL has no location parameter, and when one of the
\* first two components of the parameter is not a finite number (it is empty,
\* it is missing, it is not a number, it is infinite); otherwise it returns
\* the two numbers.
C23_Original ==
    (ret # Null /\ arg.fn = "getCurrentPosition")
    => LET iframe == findStreetViewIframe(arg.iframes)
           loc == iframe.src.location
           finite(c) == c \notin {"", "abc", "Infinity"}
       IN IF iframe = Null THEN ret.returned = Null
          ELSE IF Len(loc) < 2 THEN ret.returned = Null
          ELSE IF ~finite(loc[1]) \/ ~finite(loc[2]) THEN ret.returned = Null
          ELSE ret.returned = [lat |-> Number(loc[1]), lng |-> Number(loc[2])]

\* C24: the place name of a response with an address is the country, a comma
\* and the first non-empty of city, town and village, and the country alone
\* when the three are empty; the name of a response without an address is its
\* display_name, in every case.
C24_Original ==
    (ret # Null /\ arg.fn = "parseResponse")
    => LET data == arg.response.data
           placeName == ret.returned.placeName
       IN IF data.address # Null
          THEN LET a == data.address
               IN IF a.city # "" THEN placeName = a.country \o ", " \o a.city
                  ELSE IF a.town # ""
                       THEN placeName = a.country \o ", " \o a.town
                  ELSE IF a.village # ""
                       THEN placeName = a.country \o ", " \o a.village
                  ELSE placeName = a.country
          ELSE placeName = data.display_name

\* C24: as above, and the name of a response without an address is its
\* display_name when it has one and 'No details found' when it has none.
C24_ComposedName ==
    (ret # Null /\ arg.fn = "parseResponse")
    => LET data == arg.response.data
           placeName == ret.returned.placeName
       IN IF data.address # Null
          THEN LET a == data.address
               IN IF a.city # "" THEN placeName = a.country \o ", " \o a.city
                  ELSE IF a.town # ""
                       THEN placeName = a.country \o ", " \o a.town
                  ELSE IF a.village # ""
                       THEN placeName = a.country \o ", " \o a.village
                  ELSE placeName = a.country
          ELSE IF data.display_name # "" THEN placeName = data.display_name
          ELSE placeName = "No details found"

C24_Witness ==
    /\ arg = [fn |-> "parseResponse",
              response |-> Json(Addr("France", "", "Vanves", "Bourg"), "")]
    /\ ret # Null
    /\ ret.returned.placeName = "France, Vanves"

\* C25: isCachedLocationValid returns true exactly when the distance of the
\* two points is below 100 m, and false when it is 100 m.
C25_BelowThreshold ==
    (ret # Null /\ arg.fn = "isCachedLocationValid")
    => LET d == calculateDistance(arg.a.lat, arg.a.lng, arg.b.lat, arg.b.lng)
       IN /\ ret.returned = (d < 100)
          /\ d = 100 => ret.returned = FALSE

C25_Witness ==
    /\ arg = [fn |-> "isCachedLocationValid", a |-> Pos(8994, 0), b |-> Pos(0, 0)]
    /\ calculateDistance(8994, 0, 0, 0) = 100
    /\ calculateDistance(8993, 0, 0, 0) = 99
    /\ ret = [returned |-> FALSE]

\* C26: isCachedLocationValid gives the same for (a, b) and for (b, a), and
\* the call writes no variable of the script: the result is a function of
\* the two points.
C26_SymmetricAndPure ==
    [][ arg.fn = "isCachedLocationValid"
        => /\ ret'.returned = isCachedLocationValid(arg.b.lat, arg.b.lng,
                                                     arg.a.lat, arg.a.lng)
           /\ UNCHANGED <<lastPosition, lastPos, lastValidPlaceName,
                          positionStatusTimeout, nominatimDebounceTimeout,
                          nominatimErrorCount, nominatimErrorResetTimeout,
                          locationCache, infoPanelClasses, infoText,
                          inFlight, positionUpdateInterval>> ]_vars

C26_Witness ==
    /\ arg = [fn |-> "isCachedLocationValid",
              a |-> Pos(0, 6359), b |-> Pos(6359, 0)]
    /\ ret = [returned |-> TRUE]

\* C30: the position that getCurrentPosition returns is the same for every
\* page with the same iframe src values in the same order, whatever the ids
\* of the iframes; it is the position of the first iframe that has the embed
\* pattern in its src.
C30_IdsDoNotMatter ==
    (ret # Null /\ arg.fn = "getCurrentPosition")
    => \A ids \in [1..Len(arg.iframes) -> Ids] :
          LET page == [i \in 1..Len(arg.iframes) |->
                         [id |-> ids[i], src |-> arg.iframes[i].src]]
          IN currentPosition(page) = ret.returned

C30_Witness ==
    /\ arg = [fn |-> "getCurrentPosition",
              iframes |-> <<[id |-> "frame",
                             src |-> [embed |-> TRUE,
                                      location |-> <<"0.0001", "">>]],
                            [id |-> "PanoramaIframe",
                             src |-> [embed |-> TRUE,
                                      location |-> <<"", "0.0001">>]]>>]
    /\ ret = [returned |-> [lat |-> Num(1000), lng |-> Num(0)]]
    /\ lastPos = ret.returned

\* C27: an entry is kept under the key of the position of the response that
\* stored it, with the coordinates of that position; when performRequest runs
\* for a position whose entry has these very coordinates, it finds the entry,
\* sends no fetch and shows the name of the entry.
C27_StoredNameServed ==
    [][ /\ \A p \in Coords :
             LET entry == locationCache'[cachedKeyOf(p)]
             IN (entry # Null /\ entry # locationCache[cachedKeyOf(p)])
                => /\ entry.lat = p.lat /\ entry.lng = p.lng
                   /\ inFlight'[p] = inFlight[p] - 1
                   /\ infoText' = "Location: " \o entry.name
        /\ \A p \in Coords :
             LET entry == locationCache[cachedKeyOf(p)]
             IN ( /\ FireStep
                  /\ nominatimDebounceTimeout.position = p
                  /\ entry # Null
                  /\ entry.lat = p.lat /\ entry.lng = p.lng )
                => /\ inFlight' = inFlight
                   /\ locationCache' = locationCache
                   /\ infoText' = "Location: " \o entry.name ]_vars

C27_Witness ==
    /\ outcome = "cache"
    /\ lastPosition = Pos(1000, 1000)
    /\ locationCache[cachedKeyOf(lastPosition)] =
           [lat |-> 1000, lng |-> 1000, name |-> "France, Paris"]
    /\ infoText = "Location: France, Paris"
    /\ nominatimDebounceTimeout = Null

\* C28: a key of locationCache that has an entry has an entry after every
\* step: polling ticks, runs of performRequest, responses and failures, and
\* the runs of the status timer and of the reset timer.
C28_KeysNeverShrink ==
    [][ \A k \in Keys : locationCache[k] # Null => locationCache'[k] # Null ]_vars

C28_Witness ==
    /\ \A k \in Keys : locationCache[k] # Null
    /\ nominatimErrorResetTimeout = NoTimer
    /\ nominatimErrorCount = 0
    /\ "disconnected" \in infoPanelClasses

\* C29: a call of updateInfoPanel leaves the fetches awaited as they are, and
\* schedules performRequest for its own position; the response of a fetch for
\* an earlier position is applied when it comes, so that the text can be that
\* of an earlier position after the text for the latest position was shown.
C29_CallKeepsRequests ==
    [][ /\ CallStep
             => /\ inFlight' = inFlight
                /\ nominatimDebounceTimeout' =
                       [remaining |-> DEBOUNCE_DELAY, position |-> lastPosition']
        /\ (shown' = "stale" /\ shown = "latest")
             => /\ \E p \in Coords :
                      /\ p # lastPosition
                      /\ inFlight' = [inFlight EXCEPT ![p] = @ - 1]
                /\ UNCHANGED <<lastPosition, nominatimDebounceTimeout>> ]_vars

C29_Witness ==
    /\ shown = "stale"
    /\ lastPosition = Pos(1000, 1000)
    /\ nominatimDebounceTimeout = Null
    /\ \A p \in Coords : inFlight[p] = 0
    /\ locationCache[cachedKeyOf(lastPosition)] # Null
    /\ locationCache[cachedKeyOf(lastPosition)].name = "France, Paris"
    /\ infoText = "Location: "

\* C31: when performRequest runs and the cache has no valid entry for its
\* position, one fetch is sent, for that position; when the cache has one, no
\* fetch is sent; and a fetch is sent by no other step than a run of
\* performRequest from the debounce timer.
C31_OneRequestPerUncachedFire ==
    [][ /\ FireStep
             => LET position == nominatimDebounceTimeout.position
                IN IF cacheHit(locationCache, position)
                   THEN inFlight' = inFlight
                   ELSE inFlight' = [inFlight EXCEPT ![position] = @ + 1]
        /\ (\E p \in Coords : inFlight'[p] > inFlight[p]) => FireStep ]_vars

C31_Witness ==
    /\ outcome = "cache"
    /\ lastPosition = Pos(1000, 1000)
    /\ nominatimDebounceTimeout = Null
    /\ inFlight = [p \in Coords |-> IF p = Pos(0, 0) THEN 1 ELSE 0]

\* C35: the debounce timer, while pending, is for lastPosition: every call
\* of updateMinimap assigns lastPosition and replaces the timer by one for
\* the same position, so that performRequest runs for the lastPosition of the
\* moment it starts.
C35_FiresForLastPosition ==
    [][ /\ nominatimDebounceTimeout' # Null
             => nominatimDebounceTimeout'.position = lastPosition'
        /\ FireStep
             => /\ nominatimDebounceTimeout.position = lastPosition
                /\ lastPosition' = lastPosition ]_vars

C35_Witness ==
    /\ burstCalls = 2
    /\ burstRequests = 1
    /\ sinceCall = 1
    /\ nominatimDebounceTimeout = Null
    /\ lastPosition = Pos(0, 0)
    /\ inFlight = [p \in Coords |-> IF p = Pos(0, 0) THEN 1 ELSE 0]

\* C33 as claimed: in every state with the error status the error count is at
\* least 3.
C33_Original == "error" \in infoPanelClasses => nominatimErrorCount >= 3

\* C33: the error status is set only with an error count of at least 3; while
\* it stays set the count goes down only to 0, by a response that parses
\* (which restarts the reset timer) or by the reset timer running.
C33_ErrorSetAtThreshold ==
    [][ /\ ("error" \notin infoPanelClasses /\ "error" \in infoPanelClasses')
             => nominatimErrorCount' >= 3
        /\ ( /\ "error" \in infoPanelClasses
             /\ "error" \in infoPanelClasses'
             /\ nominatimErrorCount' < nominatimErrorCount )
             => /\ nominatimErrorCount' = 0
                /\ nominatimErrorResetTimeout' \in
                       {NoTimer, NOMINATIM_ERROR_RESET_TIMEOUT} ]_vars

C33_Witness ==
    /\ "error" \in infoPanelClasses
    /\ nominatimErrorCount = 1
    /\ nominatimErrorResetTimeout \in 1..(NOMINATIM_ERROR_RESET_TIMEOUT - 1)

\* C34: after every step each entry of locationCache is under the key made
\* from its own lat and lng, and a response writes no other key than that of
\* the position its fetch was sent for, whatever lastPosition is by then.
C34_EntryUnderOwnKey ==
    [][ /\ \A k \in Keys :
             locationCache'[k] # Null
             => k = cachedKeyOf([lat |-> locationCache'[k].lat,
                                 lng |-> locationCache'[k].lng])
        /\ \A p \in Coords :
             inFlight'[p] < inFlight[p]
             => \A k \in Keys \ {cachedKeyOf(p)} :
                   locationCache'[k] = locationCache[k] ]_vars

C34_Witness ==
    /\ shown = "stale"
    /\ lastPosition = Pos(1000, 1000)
    /\ locationCache[cachedKeyOf(Pos(0, 0))] =
           [lat |-> 0, lng |-> 0, name |-> "France, Paris"]
    /\ locationCache[cachedKeyOf(Pos(1000, 1000))] =
           [lat |-> 1000, lng |-> 1000, name |-> ""]
    /\ infoText = "Location: France, Paris"

C32_AtMostOneTimerOfEachKind ==
    /\ pending.debounce = IF nominatimDebounceTimeout # Null THEN 1 ELSE 0
    /\ pending.status = IF positionStatusTimeout # NoTimer THEN 1 ELSE 0
    /\ pending.reset = IF nominatimErrorResetTimeout # NoTimer THEN 1 ELSE 0

C32_Witness ==
    /\ pending = [debounce |-> 1, status |-> 1, reset |-> 1,
                  cleared |-> {"debounce", "status"}]
    /\ nominatimDebounceTimeout # Null
    /\ positionStatusTimeout = STATUS_TIMEOUT
    /\ nominatimErrorResetTimeout \in 1..NOMINATIM_ERROR_RESET_TIMEOUT

\* C36: when from some call of updateMinimap on lastPosition stays the same,
\* then from some moment on no debounce timer, status timer or reset timer
\* is pending, no fetch is awaited and the text of the run of performRequest
\* for lastPosition has been written.
C36_EventuallyResolved ==
    <>[][lastPosition' = lastPosition]_vars
    => <>[]( lastPosition # Null
             => /\ nominatimDebounceTimeout = Null
                /\ positionStatusTimeout = NoTimer
                /\ nominatimErrorResetTimeout = NoTimer
                /\ \A q \in Coords : inFlight[q] = 0
                /\ shown \in {"latest", "stale"} )

C36_Witness ==
    /\ shown = "latest"
    /\ lastPosition = Pos(0, 0)
    /\ nominatimDebounceTimeout = Null
    /\ \A q \in Coords : inFlight[q] = 0
    /\ nominatimErrorCount = 2
    /\ infoText = "Location: France, Paris (Last Known)"
    /\ positionStatusTimeout = NoTimer

====
